---- MODULE Spec2Model ----
(***************************************************************************)
(* Model of the change classifier (src/src/change_classifier.py), the      *)
(* template engine (src/src/template_engine.py) and the renderer dispatch  *)
(* (src/src/html_generator.py, src/src/renderers) of                       *)
(* crowd-anki-diff-viewer.                                                 *)
(*                                                                         *)
(* A text is a sequence of tokens.  A token is one character of the text,  *)
(* or one complete markup tag ("<b>"), or one complete character entity    *)
(* ("&eacute;", "&nbsp;").  The characters '<', '>', '&' and ';' occur     *)
(* only inside tag and entity tokens, so a token sequence stands for       *)
(* exactly one Python string and sequence equality is string equality.     *)
(* The character U+00E9 is written "eacute" and U+00A0 is written "nbsp".  *)
(* "&#x26;eacute;" is the text "eacute;" after a hexadecimal character     *)
(* reference to '&': it decodes to the seven characters "&eacute;", which  *)
(* decode once more to U+00E9.  "e,a,c,u,t,e" is the six letters eacute.   *)
(***************************************************************************)
EXTENDS Naturals, Sequences, FiniteSets

VARIABLES before, after, result, pc,
          before_fields, after_fields, i, field_changes, cosmetic_types,
          has_content_change, overall_type, npc,
          model_name, model_type, flds, n_tmpls, note_fields, field_map,
          selected, cpc,
          template, fields, tags, is_answer, front_side_html, steps, rpc,
          card_renderer, note_model, note, template_idx, card_steps, card, kpc,
          before_deck, after_deck, note_changes, rendered_changes, dpc

fieldVars == <<before, after, result, pc>>
noteVars == <<before_fields, after_fields, i, field_changes, cosmetic_types,
              has_content_change, overall_type, npc>>
cardVars == <<model_name, model_type, flds, n_tmpls, note_fields, field_map,
              selected, cpc>>
renderVars == <<template, fields, tags, is_answer, front_side_html, steps, rpc>>
renderCardVars == <<card_renderer, note_model, note, template_idx, card_steps,
                    card, kpc>>
diffVars == <<before_deck, after_deck, note_changes, rendered_changes, dpc>>
vars == <<before, after, result, pc,
          before_fields, after_fields, i, field_changes, cosmetic_types,
          has_content_change, overall_type, npc,
          model_name, model_type, flds, n_tmpls, note_fields, field_map,
          selected, cpc,
          template, fields, tags, is_answer, front_side_html, steps, rpc,
          card_renderer, note_model, note, template_idx, card_steps, card, kpc,
          before_deck, after_deck, note_changes, rendered_changes, dpc>>

(***************************************************************************)
(* Bounds and input alphabets.                                             *)
(***************************************************************************)
\* Largest total number of tokens of the two texts of a classified pair.
MaxTotal == 5

\* Largest total number of fields of the two field lists of a note pair.
MaxFields == 4

\* Tokens the input texts are drawn from.
Chars == {"a", "A", " ", "!", "<b>", "&eacute;", "eacute", "&nbsp;"}

SeqsUpTo(S, n) == UNION {[1..m -> S] : m \in 0..n}

(***************************************************************************)
(* ChangeType                                                              *)
(***************************************************************************)
ChangeType_CONTENT == "content"
ChangeType_WHITESPACE == "whitespace"
ChangeType_HTML_FORMATTING == "html_formatting"
ChangeType_ENTITIES == "entities"
ChangeType_CASE == "case"
ChangeType_PUNCTUATION == "punctuation"
ChangeType_MIXED_COSMETIC == "mixed_cosmetic"

\* ChangeClassifier.WHITESPACE_ENTITIES
WHITESPACE_ENTITIES == {"&nbsp;", "&ensp;", "&emsp;", "&thinsp;",
                        "&#160;", "&#8194;", "&#8195;", "&#8201;"}

(***************************************************************************)
(* Character classes and conversions of the library calls the classifier   *)
(* makes: re's \s and \w, str.lower, html.unescape, BeautifulSoup.         *)
(***************************************************************************)
\* A markup tag token.
IsTag(c) == c \in {"<b>", "</b>", "<i>", "</i>"}

\* The character an entity token decodes to (html.unescape and the HTML
\* parser's entity handling); every other token is left as it is.
DecodeChar(c) ==
    CASE c = "&eacute;" -> "eacute"
      [] c = "&#x26;eacute;" -> "&eacute;"
      [] c \in WHITESPACE_ENTITIES -> "nbsp"
      [] OTHER -> c

\* A token the pattern &[a-zA-Z]+;|&#\d+; matches.
IsEntity(c) == DecodeChar(c) # c /\ c # "&#x26;eacute;"

\* The whitespace the parser collapses in a text node made of it alone.
ASCII_SPACES == {" ", "\n", "\t", "\f", "\r"}

\* \s of a str pattern: Unicode whitespace, U+00A0 included.
IsSpace(c) == c \in ASCII_SPACES \cup {"nbsp"}

\* \w of a str pattern: Unicode letters, digits and underscore.
IsWord(c) == c \in {"a", "A", "eacute", "e,a,c,u,t,e"}

\* str.lower on one character.
LowerChar(c) == IF c = "A" THEN "a" ELSE c

lower(s) == [k \in 1..Len(s) |-> LowerChar(s[k])]

\* html.unescape: every entity is replaced by its character.
unescape(s) == [k \in 1..Len(s) |-> DecodeChar(s[k])]

\* re.sub(r'\s+', '', s)
RemoveWs(s) == SelectSeq(s, LAMBDA c : ~IsSpace(c))

\* s.replace(entity, '') for every entity of WHITESPACE_ENTITIES
RemoveWsEntities(s) == SelectSeq(s, LAMBDA c : c \notin WHITESPACE_ENTITIES)

RECURSIVE CollapseFrom(_, _)
CollapseFrom(s, k) ==
    IF k > Len(s) THEN <<>>
    ELSE IF IsSpace(s[k])
         THEN (IF k > 1 /\ IsSpace(s[k - 1]) THEN <<>> ELSE <<" ">>)
              \o CollapseFrom(s, k + 1)
         ELSE <<s[k]>> \o CollapseFrom(s, k + 1)

\* re.sub(r'\s+', ' ', s): every whitespace run becomes one space.
CollapseWs(s) == CollapseFrom(s, 1)

RECURSIVE LStrip(_)
LStrip(s) == IF s # <<>> /\ IsSpace(Head(s)) THEN LStrip(Tail(s)) ELSE s

RECURSIVE RStrip(_)
RStrip(s) ==
    IF s # <<>> /\ IsSpace(s[Len(s)]) THEN RStrip(SubSeq(s, 1, Len(s) - 1)) ELSE s

\* str.strip()
strip(s) == RStrip(LStrip(s))

\* The parser's end of a text node: a node made of ASCII whitespace alone is
\* replaced by one newline or one space.
EndData(node) ==
    IF node = <<>> THEN <<>>
    ELSE IF \A k \in 1..Len(node) : node[k] \in ASCII_SPACES
         THEN (IF \E k \in 1..Len(node) : node[k] = "\n" THEN <<"\n">> ELSE <<" ">>)
         ELSE node

RECURSIVE GetTextFrom(_, _, _)
GetTextFrom(s, k, node) ==
    IF k > Len(s) THEN EndData(node)
    ELSE IF IsTag(s[k])
         THEN EndData(node) \o GetTextFrom(s, k + 1, <<>>)
         ELSE GetTextFrom(s, k + 1, Append(node, DecodeChar(s[k])))

\* BeautifulSoup(text, 'html.parser').get_text(): the text nodes between the
\* tags, entities decoded, concatenated.
get_text(s) == GetTextFrom(s, 1, <<>>)

(***************************************************************************)
(* ChangeClassifier                                                        *)
(***************************************************************************)
normalize_for_comparison(text) == lower(strip(CollapseWs(unescape(get_text(text)))))

\* Mutant: the whitespace check compares the texts without regard to case.
is_whitespace_change_IgnoringCase(before1, after1) ==
    lower(RemoveWsEntities(RemoveWs(before1))) = lower(RemoveWsEntities(RemoveWs(after1)))

is_whitespace_change(before1, after1) ==
    RemoveWsEntities(RemoveWs(before1)) = RemoveWsEntities(RemoveWs(after1))

\* set(re.findall(r'&[a-zA-Z]+;|&#\d+;', text))
EntitySet(text) == {text[k] : k \in {j \in 1..Len(text) : IsEntity(text[j])}}

\* Mutant: only entities that the before text has and the after text lacks
\* are looked for.
is_entity_change_OneSided(before1, after1) ==
    IF EntitySet(before1) \ EntitySet(after1) # {}
    THEN normalize_for_comparison(unescape(before1))
           = normalize_for_comparison(unescape(after1))
    ELSE FALSE

is_entity_change(before1, after1) ==
    IF EntitySet(before1) # EntitySet(after1)
    THEN normalize_for_comparison(unescape(before1))
           = normalize_for_comparison(unescape(after1))
    ELSE FALSE

is_html_formatting_change(before1, after1) ==
    /\ strip(CollapseWs(get_text(before1))) = strip(CollapseWs(get_text(after1)))
    /\ before1 # after1

is_case_change(before1, after1) ==
    LET before_text == strip(CollapseWs(get_text(before1)))
        after_text == strip(CollapseWs(get_text(after1)))
    IN  lower(before_text) = lower(after_text) /\ before_text # after_text

\* re.sub(r'[^\w\s]', '', s); of the text "&eacute;" the letters are left.
RemovePunct(s) ==
    SelectSeq([k \in 1..Len(s) |-> IF s[k] = "&eacute;" THEN "e,a,c,u,t,e" ELSE s[k]],
              LAMBDA c : IsWord(c) \/ IsSpace(c))

\* Mutant: the punctuation check compares the raw texts, not the tag-stripped.
is_punctuation_change_ComparesRaw(before1, after1) ==
    LET before_no_punct == strip(CollapseWs(RemovePunct(get_text(before1))))
        after_no_punct == strip(CollapseWs(RemovePunct(get_text(after1))))
    IN  lower(before_no_punct) = lower(after_no_punct) /\ before1 # after1

is_punctuation_change(before1, after1) ==
    LET before_text == get_text(before1)
        after_text == get_text(after1)
        before_no_punct == strip(CollapseWs(RemovePunct(before_text)))
        after_no_punct == strip(CollapseWs(RemovePunct(after_text)))
    IN  lower(before_no_punct) = lower(after_no_punct) /\ before_text # after_text

\* Mutant: no default when no detector matched.
detect_cosmetic_changes_NoDefault(before1, after1) ==
    IF is_whitespace_change(before1, after1)
    THEN [changes |-> <<ChangeType_WHITESPACE>>, ran |-> <<ChangeType_WHITESPACE>>]
    ELSE [changes |->
                 (IF is_entity_change(before1, after1) THEN <<ChangeType_ENTITIES>> ELSE <<>>)
              \o (IF is_html_formatting_change(before1, after1)
                  THEN <<ChangeType_HTML_FORMATTING>> ELSE <<>>)
              \o (IF is_case_change(before1, after1) THEN <<ChangeType_CASE>> ELSE <<>>)
              \o (IF is_punctuation_change(before1, after1)
                  THEN <<ChangeType_PUNCTUATION>> ELSE <<>>),
          ran |-> <<ChangeType_WHITESPACE, ChangeType_ENTITIES, ChangeType_HTML_FORMATTING, ChangeType_CASE, ChangeType_PUNCTUATION>>]

\* The result of _detect_cosmetic_changes with the detectors it evaluated.
detect_cosmetic_changes(before1, after1) ==
    IF is_whitespace_change(before1, after1)
    THEN [changes |-> <<ChangeType_WHITESPACE>>, ran |-> <<ChangeType_WHITESPACE>>]
    ELSE LET changes ==
                 (IF is_entity_change(before1, after1) THEN <<ChangeType_ENTITIES>> ELSE <<>>)
              \o (IF is_html_formatting_change(before1, after1)
                  THEN <<ChangeType_HTML_FORMATTING>> ELSE <<>>)
              \o (IF is_case_change(before1, after1) THEN <<ChangeType_CASE>> ELSE <<>>)
              \o (IF is_punctuation_change(before1, after1)
                  THEN <<ChangeType_PUNCTUATION>> ELSE <<>>)
         IN  [changes |-> IF changes = <<>> THEN <<ChangeType_HTML_FORMATTING>> ELSE changes,
              ran |-> <<ChangeType_WHITESPACE, ChangeType_ENTITIES, ChangeType_HTML_FORMATTING, ChangeType_CASE, ChangeType_PUNCTUATION>>]

\* The return statements of classify_field_change after the detectors ran.
CosmeticResult(d) ==
    IF Len(d.changes) = 1
    THEN [kind |-> d.changes[1], subkinds |-> d.changes, ran |-> d.ran]
    ELSE IF Len(d.changes) > 1
         THEN [kind |-> ChangeType_MIXED_COSMETIC, subkinds |-> d.changes, ran |-> d.ran]
         ELSE [kind |-> ChangeType_HTML_FORMATTING, subkinds |-> <<"unknown">>,
               ran |-> d.ran]

\* Mutant: the normalized forms are compared without lower-casing.
classify_field_change_CaseSensitive(before1, after1) ==
    IF before1 = after1
    THEN [kind |-> ChangeType_CONTENT, subkinds |-> <<>>, ran |-> <<>>]
    ELSE IF strip(CollapseWs(unescape(get_text(before1))))
              = strip(CollapseWs(unescape(get_text(after1))))
         THEN CosmeticResult(detect_cosmetic_changes(before1, after1))
         ELSE [kind |-> ChangeType_CONTENT, subkinds |-> <<>>, ran |-> <<>>]

\* Mutant: no early return for equal texts.
classify_field_change_NoEqualityCheck(before1, after1) ==
    IF normalize_for_comparison(before1) = normalize_for_comparison(after1)
    THEN CosmeticResult(detect_cosmetic_changes(before1, after1))
    ELSE [kind |-> ChangeType_CONTENT, subkinds |-> <<>>, ran |-> <<>>]

\* The pair classify_field_change returns, with the detectors that ran.
classify_field_change(before1, after1) ==
    IF before1 = after1
    THEN [kind |-> ChangeType_CONTENT, subkinds |-> <<>>, ran |-> <<>>]
    ELSE IF normalize_for_comparison(before1) = normalize_for_comparison(after1)
         THEN CosmeticResult(detect_cosmetic_changes(before1, after1))
         ELSE [kind |-> ChangeType_CONTENT, subkinds |-> <<>>, ran |-> <<>>]

NoResult == [kind |-> "none", subkinds |-> <<>>, ran |-> <<>>]

(***************************************************************************)
(* Specification of one call of classify_field_change.                     *)
(***************************************************************************)
CardIdle ==
    /\ model_name = <<>>
    /\ model_type = "none"
    /\ flds = <<>>
    /\ n_tmpls = 0
    /\ note_fields = <<>>
    /\ field_map = <<>>
    /\ selected = "none"
    /\ cpc = "idle"

RenderCardIdle ==
    /\ card_renderer = "none"
    /\ note_model = <<>>
    /\ note = <<>>
    /\ template_idx = 0
    /\ card_steps = <<>>
    /\ card = <<>>
    /\ kpc = "idle"

DiffIdle ==
    /\ before_deck = [present |-> FALSE]
    /\ after_deck = [present |-> FALSE]
    /\ note_changes = <<>>
    /\ rendered_changes = <<>>
    /\ dpc = "idle"

RenderIdle ==
    /\ template = <<>>
    /\ fields = <<>>
    /\ tags = <<>>
    /\ is_answer = FALSE
    /\ front_side_html = <<>>
    /\ steps = <<>>
    /\ rpc = "idle"

NoteIdle ==
    /\ before_fields = <<>>
    /\ after_fields = <<>>
    /\ i = 0
    /\ field_changes = {}
    /\ cosmetic_types = {}
    /\ has_content_change = FALSE
    /\ overall_type = "none"
    /\ npc = "idle"

Init ==
    /\ before \in SeqsUpTo(Chars, MaxTotal)
    /\ after \in SeqsUpTo(Chars, MaxTotal - Len(before))
    /\ result = NoResult
    /\ pc = "call"
    /\ NoteIdle
    /\ CardIdle
    /\ RenderIdle
    /\ RenderCardIdle
    /\ DiffIdle

ClassifyFieldChange ==
    /\ pc = "call"
    /\ result' = classify_field_change(before, after)
    /\ pc' = "done"
    /\ UNCHANGED <<before, after>>
    /\ UNCHANGED <<noteVars, cardVars, renderVars, renderCardVars, diffVars>>

Next == ClassifyFieldChange

Spec == Init /\ [][Next]_vars

\* Texts with character references the entity pattern does not match.
CharRefChars == {"a", "A", " ", "<b>", "&eacute;", "eacute", "&#x26;eacute;"}

CharRefInit ==
    /\ before \in SeqsUpTo(CharRefChars, MaxTotal)
    /\ after \in SeqsUpTo(CharRefChars, MaxTotal - Len(before))
    /\ result = NoResult
    /\ pc = "call"
    /\ NoteIdle
    /\ CardIdle
    /\ RenderIdle
    /\ RenderCardIdle
    /\ DiffIdle

SpecCharRef == CharRefInit /\ [][Next]_vars

(***************************************************************************)
(* classify_note_change: one action for every iteration of the loop over   *)
(* the field positions, one for the decision after the loop.               *)
(***************************************************************************)
\* Field values the notes are built from.
FieldPool == {<<>>} \cup {<<c>> : c \in Chars}

Max(a, b) == IF a >= b THEN a ELSE b

\* What a list access raises for an index past the end of the list.
IndexError == <<"IndexError">>

\* list[k], k counted from 0 and never negative.
ListGet(list, k) == IF k < Len(list) THEN list[k + 1] ELSE IndexError

\* Mutant: the position equal to the length is read from the list.
FieldAt_OffByOne(list, k) == IF k <= Len(list) THEN ListGet(list, k) ELSE <<>>

\* before_fields[i] if i < len(before_fields) else "" (i counts from 0)
FieldAt(list, k) == IF k < Len(list) THEN ListGet(list, k) ELSE <<>>

FieldIdle ==
    /\ before = <<>>
    /\ after = <<>>
    /\ result = NoResult
    /\ pc = "idle"

NoteInit ==
    /\ before_fields \in SeqsUpTo(FieldPool, MaxFields)
    /\ after_fields \in SeqsUpTo(FieldPool, MaxFields - Len(before_fields))
    /\ i = 0
    /\ field_changes = {}
    /\ cosmetic_types = {}
    /\ has_content_change = FALSE
    /\ overall_type = "none"
    /\ npc = "loop"
    /\ FieldIdle
    /\ CardIdle
    /\ RenderIdle
    /\ RenderCardIdle
    /\ DiffIdle

\* The set of the elements of a list: set.update(details)
Elems(s) == {s[k] : k \in 1..Len(s)}

\* Mutant: has_content_change is overwritten by every differing field.
NoteLoopBody_LastFieldWins(before_val, after_val, k, fc, ct, hc) ==
    IF before_val # after_val
    THEN LET r == classify_field_change(before_val, after_val)
         IN  [field_changes |-> fc \cup {[field |-> k, type |-> r.kind,
                                          details |-> r.subkinds]},
              cosmetic_types |-> IF r.kind = ChangeType_CONTENT
                                 THEN ct ELSE ct \cup Elems(r.subkinds),
              has_content_change |-> (r.kind = ChangeType_CONTENT)]
    ELSE [field_changes |-> fc, cosmetic_types |-> ct, has_content_change |-> hc]

\* Mutant: the field's kind is collected instead of its subkinds.
NoteLoopBody_CollectsKind(before_val, after_val, k, fc, ct, hc) ==
    IF before_val # after_val
    THEN LET r == classify_field_change(before_val, after_val)
         IN  [field_changes |-> fc \cup {[field |-> k, type |-> r.kind,
                                          details |-> r.subkinds]},
              cosmetic_types |-> IF r.kind = ChangeType_CONTENT
                                 THEN ct ELSE ct \cup {r.kind},
              has_content_change |-> IF r.kind = ChangeType_CONTENT
                                     THEN TRUE ELSE hc]
    ELSE [field_changes |-> fc, cosmetic_types |-> ct, has_content_change |-> hc]

\* Mutant: only the first subkind of a field is collected.
NoteLoopBody_CollectsFirstSubkind(before_val, after_val, k, fc, ct, hc) ==
    IF before_val # after_val
    THEN LET r == classify_field_change(before_val, after_val)
         IN  [field_changes |-> fc \cup {[field |-> k, type |-> r.kind,
                                          details |-> r.subkinds]},
              cosmetic_types |-> IF r.kind = ChangeType_CONTENT
                                 THEN ct ELSE ct \cup {r.subkinds[1]},
              has_content_change |-> IF r.kind = ChangeType_CONTENT
                                     THEN TRUE ELSE hc]
    ELSE [field_changes |-> fc, cosmetic_types |-> ct, has_content_change |-> hc]

\* The new field_changes, cosmetic_types and has_content_change of one
\* iteration of the loop.
NoteLoopBody(before_val, after_val, k, fc, ct, hc) ==
    IF before_val # after_val
    THEN LET r == classify_field_change(before_val, after_val)
         IN  [field_changes |-> fc \cup {[field |-> k, type |-> r.kind,
                                          details |-> r.subkinds]},
              cosmetic_types |-> IF r.kind = ChangeType_CONTENT
                                 THEN ct ELSE ct \cup Elems(r.subkinds),
              has_content_change |-> IF r.kind = ChangeType_CONTENT
                                     THEN TRUE ELSE hc]
    ELSE [field_changes |-> fc, cosmetic_types |-> ct, has_content_change |-> hc]

NoteLoopStep ==
    /\ npc = "loop"
    /\ i < Max(Len(before_fields), Len(after_fields))
    /\ LET before_val == FieldAt(before_fields, i)
           after_val == FieldAt(after_fields, i)
           b == NoteLoopBody(before_val, after_val, i,
                             field_changes, cosmetic_types, has_content_change)
       IN  IF IndexError \in {before_val, after_val}
           THEN /\ npc' = "raised"
                /\ UNCHANGED <<field_changes, cosmetic_types, has_content_change, i>>
           ELSE /\ field_changes' = b.field_changes
                /\ cosmetic_types' = b.cosmetic_types
                /\ has_content_change' = b.has_content_change
                /\ i' = i + 1
                /\ npc' = npc
    /\ UNCHANGED <<before_fields, after_fields, overall_type>>
    /\ UNCHANGED <<fieldVars, cardVars, renderVars, renderCardVars, diffVars>>

\* Mutant: the collected subkinds are looked at before has_content_change.
OverallType_CosmeticFirst(hc, ct) ==
    IF Cardinality(ct) = 1 THEN CHOOSE t \in ct : TRUE
    ELSE IF Cardinality(ct) > 1 THEN ChangeType_MIXED_COSMETIC
    ELSE ChangeType_CONTENT

\* Mutant: the fallback for no collected subkind is a cosmetic kind.
OverallType_CosmeticFallback(hc, ct) ==
    IF hc THEN ChangeType_CONTENT
    ELSE IF Cardinality(ct) = 1 THEN CHOOSE t \in ct : TRUE
    ELSE IF Cardinality(ct) > 1 THEN ChangeType_MIXED_COSMETIC
    ELSE ChangeType_HTML_FORMATTING

\* Determine overall change type
OverallType(hc, ct) ==
    IF hc THEN ChangeType_CONTENT
    ELSE IF Cardinality(ct) = 1 THEN CHOOSE t \in ct : TRUE
    ELSE IF Cardinality(ct) > 1 THEN ChangeType_MIXED_COSMETIC
    ELSE ChangeType_CONTENT

NoteDecide ==
    /\ npc = "loop"
    /\ i = Max(Len(before_fields), Len(after_fields))
    /\ overall_type' = OverallType(has_content_change, cosmetic_types)
    /\ npc' = "done"
    /\ UNCHANGED <<before_fields, after_fields, i, field_changes, cosmetic_types,
                   has_content_change>>
    /\ UNCHANGED <<fieldVars, cardVars, renderVars, renderCardVars, diffVars>>

NoteNext == NoteLoopStep \/ NoteDecide

\* Either function is called, once.
SymmetryInit == Init \/ NoteInit

SymmetryNext == ClassifyFieldChange \/ NoteLoopStep \/ NoteDecide

SpecSymmetry == SymmetryInit /\ [][SymmetryNext]_vars

\* The loop of classify_note_change from position k on.
RECURSIVE NoteLoopFrom(_, _, _, _)
NoteLoopFrom(bf, af, k, acc) ==
    IF k >= Max(Len(bf), Len(af)) THEN acc
    ELSE NoteLoopFrom(bf, af, k + 1,
             NoteLoopBody(FieldAt(bf, k), FieldAt(af, k), k,
                          acc.field_changes, acc.cosmetic_types, acc.has_content_change))

\* classify_note_change as a function of the two field lists.
classify_note_change(bf, af) ==
    LET acc == NoteLoopFrom(bf, af, 0,
                   [field_changes |-> {}, cosmetic_types |-> {},
                    has_content_change |-> FALSE])
    IN  [overall_type |-> OverallType(acc.has_content_change, acc.cosmetic_types),
         field_changes |-> acc.field_changes,
         cosmetic_types |-> acc.cosmetic_types]

SpecNote == NoteInit /\ [][NoteNext]_vars

(***************************************************************************)
(* Note models, the renderer dispatch of HTMLDiffGenerator and the field   *)
(* map of the renderers.  A model name is a sequence of words.             *)
(***************************************************************************)
\* Largest number of words of a model name.
MaxNameWords == 2

\* Largest number of field definitions of a model and of fields of a note.
MaxFlds == 4

\* Largest number of card templates of a model.
MaxTmpls == 2

NameWords == {"Image", "occlusion", "Basic"}

NoteType_BASIC == 0
NoteType_CLOZE == 1

\* NoteChange.is_cosmetic_only
is_cosmetic_only(content_change_type) == content_change_type # ChangeType_CONTENT

\* str.lower on one word of a model name.
LowerWord(w) == IF w = "Image" THEN "image" ELSE w

\* word in note_model.name.lower()
NameContains(name, word) == \E k \in 1..Len(name) : LowerWord(name[k]) = word

\* Names of the field definitions, by position.
FIELD_NAMES == <<"F", "G", "H", "I", "J", "K">>

\* The field definitions of a model with n fields: ordinals 0-based and dense.
DenseFlds(n) == [k \in 1..n |-> [name |-> FIELD_NAMES[k], ord |-> k - 1]]

\* can_render of the four renderers.
can_render(renderer, name, type, n_flds, n_templates) ==
    CASE renderer = "image_occlusion" ->
             NameContains(name, "image") /\ NameContains(name, "occlusion")
      [] renderer = "cloze" -> type = NoteType_CLOZE
      [] renderer = "multi_field" ->
             (n_flds > 3 \/ n_templates > 1) /\ type = NoteType_BASIC
      [] renderer = "basic" -> type = NoteType_BASIC

\* Mutant: the multi-field renderer is tried first.
renderers_MultiFieldFirst == <<"multi_field", "image_occlusion", "cloze", "basic">>

\* HTMLDiffGenerator.renderers
renderers == <<"image_occlusion", "cloze", "multi_field", "basic">>

RECURSIVE SelectFrom(_, _, _, _, _)
SelectFrom(k, name, type, n_flds, n_templates) ==
    IF k > Len(renderers) THEN renderers[Len(renderers)]
    ELSE IF can_render(renderers[k], name, type, n_flds, n_templates)
         THEN renderers[k]
         ELSE SelectFrom(k + 1, name, type, n_flds, n_templates)

\* HTMLDiffGenerator._select_renderer
select_renderer(name, type, n_flds, n_templates) ==
    SelectFrom(1, name, type, n_flds, n_templates)

\* field_map[field_def.name] of one iteration of _build_field_map
FieldMapValue(note_fields1, ord) ==
    IF ord < Len(note_fields1) THEN ListGet(note_fields1, ord) ELSE <<>>

\* BaseNoteRenderer._build_field_map: the pairs (name, value) in the order
\* of the field definitions.
build_field_map(note_fields1, flds1) ==
    [k \in 1..Len(flds1) |->
        [name |-> flds1[k].name, value |-> FieldMapValue(note_fields1, flds1[k].ord)]]

SelectRenderer ==
    /\ cpc = "select"
    /\ selected' = select_renderer(model_name, model_type, Len(flds), n_tmpls)
    /\ cpc' = "fields"
    /\ UNCHANGED <<model_name, model_type, flds, n_tmpls, note_fields, field_map>>
    /\ UNCHANGED <<fieldVars, noteVars, renderVars, renderCardVars, diffVars>>

BuildFieldMap ==
    /\ cpc = "fields"
    /\ LET m == build_field_map(note_fields, flds)
       IN  IF \E k \in 1..Len(m) : m[k].value = IndexError
           THEN cpc' = "raised" /\ field_map' = field_map
           ELSE cpc' = "done" /\ field_map' = m
    /\ UNCHANGED <<model_name, model_type, flds, n_tmpls, note_fields, selected>>
    /\ UNCHANGED <<fieldVars, noteVars, renderVars, renderCardVars, diffVars>>

CardInit ==
    /\ model_name \in SeqsUpTo(NameWords, MaxNameWords)
    /\ model_type \in {NoteType_BASIC, NoteType_CLOZE}
    /\ flds \in {DenseFlds(n) : n \in 0..MaxFlds}
    /\ n_tmpls \in 1..MaxTmpls
    /\ note_fields \in {[k \in 1..m |-> <<"a">>] : m \in 0..MaxFlds}
    /\ field_map = <<>>
    /\ selected = "none"
    /\ cpc = "select"
    /\ FieldIdle
    /\ NoteIdle
    /\ RenderIdle
    /\ RenderCardIdle
    /\ DiffIdle

CardNext == SelectRenderer \/ BuildFieldMap

SpecCard == CardInit /\ [][CardNext]_vars

(***************************************************************************)
(* One note change: classify_note_change on the fields of its two notes    *)
(* and the field map of its after note, in either order.                   *)
(***************************************************************************)
PadFieldPool == {<<>>, <<"a">>, <<"A">>}

PadInit ==
    /\ before_fields \in SeqsUpTo(PadFieldPool, MaxFields)
    /\ after_fields \in SeqsUpTo(PadFieldPool, MaxFields - Len(before_fields))
    /\ i = 0
    /\ field_changes = {}
    /\ cosmetic_types = {}
    /\ has_content_change = FALSE
    /\ overall_type = "none"
    /\ npc = "loop"
    /\ model_name = <<"Basic">>
    /\ model_type = NoteType_BASIC
    /\ flds \in {DenseFlds(n) : n \in 0..MaxFlds}
    /\ n_tmpls = 1
    /\ note_fields = after_fields
    /\ field_map = <<>>
    /\ selected = "basic"
    /\ cpc = "fields"
    /\ FieldIdle
    /\ RenderIdle
    /\ RenderCardIdle
    /\ DiffIdle

PadNext == NoteLoopStep \/ NoteDecide \/ BuildFieldMap

SpecPadding == PadInit /\ [][PadNext]_vars

(***************************************************************************)
(* AnkiTemplateEngine.  A template, a field value, a tag and the front HTML *)
(* are sequences of tokens; a token is a piece of plain text, one whole     *)
(* placeholder {{...}}, one rendered cloze element, or a backslash with the *)
(* character after it.  Plain text holds no brace and no backslash.         *)
(***************************************************************************)
\* Largest number of parts a template is put together from.
MaxParts == 2

Tok(k, a, b, c) == [k |-> k, a |-> a, b |-> b, c |-> c]

\* Plain text s.
Txt(s) == Tok("txt", s, "", "")
\* {{n}}
Fld(n) == Tok("field", n, "", "")
\* {{#n}}
Open(n) == Tok("open", n, "", "")
\* {{^n}}
Neg(n) == Tok("neg", n, "", "")
\* {{/n}}
Close(n) == Tok("close", n, "", "")
\* {{cloze:n}}
Cloze(n) == Tok("cloze", n, "", "")
\* {{cN::text}} and {{cN::text::hint}}; no hint is hint "".
Marker(num, text, hint) == Tok("marker", num, text, hint)
\* <span class="cloze" data-cloze="N">text</span>
Span(num, text) == Tok("span", num, text, "")
\* A backslash followed by the character c.
Esc(c) == Tok("esc", c, "", "")

FrontSide == Fld("FrontSide")
Tags == Fld("Tags")

\* The text of an image-occlusion shape descriptor.
IO_TEXT == "image-occlusion:rect:left=.1"

\* c\d+::image-occlusion at the start of a placeholder's content
IsImageOcclusion(tok) == tok.k = "marker" /\ tok.b = IO_TEXT

\* \{\{([^}]+)\}\}: any placeholder
IsPlaceholder(tok) == tok.k \in {"field", "open", "neg", "close", "cloze", "marker"}

RECURSIVE Flat(_)
Flat(ss) == IF ss = <<>> THEN <<>> ELSE Head(ss) \o Flat(Tail(ss))

\* str.replace / re.sub of one placeholder: every token tok of t is replaced
\* by the tokens of by, and what is put in is not scanned again.
ReplaceEach(t, tok, by) == Flat([k \in 1..Len(t) |-> IF t[k] = tok THEN by ELSE <<t[k]>>])

\* fields.get(name, ""); fields is the dict as the sequence of its items.
Get(fs, name) ==
    IF \E j \in 1..Len(fs) : fs[j].name = name
    THEN fs[CHOOSE j \in 1..Len(fs) : fs[j].name = name].value
    ELSE <<>>

\* Mutant: the front HTML is inserted on either side.
ReplaceFrontSide_AnySide(t, answer, front) ==
    ReplaceEach(t, FrontSide, front)

\* result.replace("{{FrontSide}}", front_side_html), for the answer side only
ReplaceFrontSide(t, answer, front) ==
    IF answer /\ \E k \in 1..Len(t) : t[k] = FrontSide
    THEN ReplaceEach(t, FrontSide, front)
    ELSE t

\* " ".join(tags)
RECURSIVE Join(_)
Join(ts) ==
    IF ts = <<>> THEN <<>>
    ELSE IF Len(ts) = 1 THEN ts[1]
    ELSE ts[1] \o <<Txt(" ")>> \o Join(Tail(ts))

\* result.replace("{{Tags}}", tags_str)
ReplaceTags(t, ts) == ReplaceEach(t, Tags, Join(ts))

\* Mutant: only the markers of ordinal 1 are revealed.
replace_cloze_item_FirstOrdinalOnly(m) == IF m.a = "1" THEN Span(m.a, m.b) ELSE m

\* replace_cloze_item: the element for one marker; the hint is dropped.
replace_cloze_item(m) == Span(m.a, m.b)

\* replace_cloze: re.sub(cloze_pattern, replace_cloze_item, field_value)
replace_cloze(field_value) ==
    [k \in 1..Len(field_value) |->
        IF field_value[k].k = "marker" THEN replace_cloze_item(field_value[k])
        ELSE field_value[k]]

\* _render_cloze
render_cloze(t, fs) ==
    Flat([k \in 1..Len(t) |->
             IF t[k].k = "cloze" THEN replace_cloze(Get(fs, t[k].a)) ELSE <<t[k]>>])

\* str.strip on a field name.
StripName(n) == IF n = " F " THEN "F" ELSE n

\* match.group(1).strip()
BlockFieldName(n) == StripName(n)

\* bool(field_value.strip())
IsBlank(tok) == tok.k = "txt" /\ tok.a \in {" ", "\n"}
\* Mutant: the value is tested without trimming.
StripTruthy_Untrimmed(value) == value # <<>>

StripTruthy(value) == \E k \in 1..Len(value) : ~IsBlank(value[k])

\* replace_negative / replace_positive: what one matched block becomes.
BlockReplacement(kind, name, content, fs) ==
    LET field_value == Get(fs, BlockFieldName(name))
    IN  IF kind = "neg"
        THEN (IF ~StripTruthy(field_value) THEN content ELSE <<>>)
        ELSE (IF StripTruthy(field_value) THEN content ELSE <<>>)

\* re.sub of one conditional pattern from position p on: the leftmost opener
\* of the kind with a later {{/name}} matches up to the first such closer
\* (.*? is non-greedy), and the scan goes on after the closer.
RECURSIVE SubBlocks(_, _, _, _)
SubBlocks(t, p, kind, fs) ==
    IF p > Len(t) THEN <<>>
    ELSE IF t[p].k = kind /\ \E q \in (p + 1)..Len(t) : t[q] = Close(t[p].a)
    THEN LET q == CHOOSE q \in (p + 1)..Len(t) :
                      /\ t[q] = Close(t[p].a)
                      /\ \A r \in (p + 1)..(q - 1) : t[r] # Close(t[p].a)
         IN  BlockReplacement(kind, t[p].a, SubSeq(t, p + 1, q - 1), fs)
                 \o SubBlocks(t, q + 1, kind, fs)
    ELSE <<t[p]>> \o SubBlocks(t, p + 1, kind, fs)

\* _render_conditionals: the negative blocks, then the positive blocks.
render_conditionals(t, fs) == SubBlocks(SubBlocks(t, 1, "neg", fs), 1, "open", fs)

\* re.error raised by re.sub for a bad replacement string.
re_error == <<Tok("re.error", "", "", "")>>

\* The escapes re.sub knows in a replacement string: \n is a newline; \1 is a
\* reference to a group the pattern does not have.
BadEscape(value) == \E k \in 1..Len(value) : value[k].k = "esc" /\ value[k].a # "n"
ExpandEscapes(value) ==
    [k \in 1..Len(value) |-> IF value[k] = Esc("n") THEN Txt("\n") ELSE value[k]]

\* The loop of _render_fields from the j-th item of the dict on.
RECURSIVE SubFields(_, _, _)
SubFields(t, fs, j) ==
    IF j > Len(fs) THEN t
    ELSE IF BadEscape(fs[j].value) THEN re_error
    ELSE SubFields(ReplaceEach(t, Fld(fs[j].name), ExpandEscapes(fs[j].value)), fs, j + 1)

\* Mutant: the cleanup has no look-ahead for image-occlusion descriptors.
Unresolved_NoLookahead(tok) == IsPlaceholder(tok)

\* \{\{(?!c\d+::image-occlusion)([^}]+)\}\}
Unresolved(tok) == IsPlaceholder(tok) /\ ~IsImageOcclusion(tok)

\* The cleanup of _render_fields.
RemoveUnresolved(t) == SelectSeq(t, LAMBDA x : ~Unresolved(x))

\* _render_fields
render_fields(t, fs) ==
    IF SubFields(t, fs, 1) = re_error THEN re_error
    ELSE RemoveUnresolved(SubFields(t, fs, 1))

\* The value of result after each step of render.
RenderSteps(t, fs, ts, answer, front) ==
    LET s1 == ReplaceFrontSide(t, answer, front)
        s2 == ReplaceTags(s1, ts)
        s3 == render_cloze(s2, fs)
        s4 == render_conditionals(s3, fs)
    IN  [front |-> s1, tags |-> s2, cloze |-> s3, conditionals |-> s4,
         substituted |-> SubFields(s4, fs, 1),
         final |-> render_fields(s4, fs)]

\* AnkiTemplateEngine.render
render(t, fs, ts, answer, front) == RenderSteps(t, fs, ts, answer, front).final

Render ==
    /\ rpc = "call"
    /\ steps' = RenderSteps(template, fields, tags, is_answer, front_side_html)
    /\ rpc' = IF render(template, fields, tags, is_answer, front_side_html) = re_error
              THEN "raised" ELSE "done"
    /\ UNCHANGED <<template, fields, tags, is_answer, front_side_html>>
    /\ UNCHANGED <<fieldVars, noteVars, cardVars, renderCardVars, diffVars>>

\* The blocks a template is put together from.
BlockNames == {"F", " F "}
BlockContents == {<<Txt("yes")>>, <<FrontSide>>, <<Cloze("F")>>}
Blocks ==
    {<<o>> \o inner \o <<Close(o.a)>> :
        o \in {Open(n) : n \in BlockNames} \cup {Neg(n) : n \in BlockNames},
        inner \in BlockContents}

\* A positive block on F inside a positive block on G.
NestedBlock == <<Open("G"), Txt("a"), Open("F"), Txt("yes"), Close("F"), Close("G")>>

\* The parts a template is put together from.
TemplateParts ==
    {<<x>> : x \in {Txt("a"), Fld("F"), Fld("G"), FrontSide, Tags, Cloze("F"),
                    Open("F"), Close("F"), Marker("1", IO_TEXT, ""),
                    Marker("1", "foo", ""), Esc("1")}}
      \cup Blocks \cup {NestedBlock}

RECURSIVE Templates(_)
Templates(n) ==
    IF n = 0 THEN {<<>>}
    ELSE Templates(n - 1) \cup {t \o part : t \in Templates(n - 1), part \in TemplateParts}

\* The values of the field F.
FValues ==
    {<<>>, <<Txt(" ")>>, <<Txt("Q")>>,
     <<Marker("1", "Paris", ""), Txt(" is capital")>>,
     <<Marker("2", "b", "hint"), Marker("1", IO_TEXT, "")>>,
     <<Esc("1")>>, <<Txt("a"), Esc("n"), Txt("b")>>,
     <<Fld("G")>>}

\* The values of the field G.
GValues == {<<Txt("w")>>}

\* The mappings of field names to values: F, G, both (F first) or none.
FieldMaps ==
    LET fs == {<<[name |-> "F", value |-> v]>> : v \in FValues}
        gs == {<<[name |-> "G", value |-> v]>> : v \in GValues}
    IN  {<<>>} \cup fs \cup {f \o g : f \in fs, g \in gs}

TagLists == {<<>>, << <<Txt("t1")>>, <<Txt("t2")>> >>}

\* Front HTML as render returns it.
FrontHtmls == {<<Txt("q")>>, <<Txt("q"), Marker("1", IO_TEXT, "")>>}

RenderInit ==
    /\ template \in Templates(MaxParts)
    /\ fields \in FieldMaps
    /\ tags \in TagLists
    /\ is_answer \in BOOLEAN
    /\ front_side_html \in FrontHtmls
    /\ steps = <<>>
    /\ rpc = "call"
    /\ FieldIdle
    /\ NoteIdle
    /\ CardIdle
    /\ RenderCardIdle
    /\ DiffIdle

RenderNext == Render

SpecRender == RenderInit /\ [][RenderNext]_vars

(***************************************************************************)
(* render_card of the four renderers.  The JavaScript that                 *)
(* _generate_io_script returns is one token: its text is fixed but for the *)
(* JSON of the shape list and of show_answer, which the token holds.       *)
(***************************************************************************)
\* "anki.imageOcclusion.setup()" and "</script>" in a template or an HTML
SETUP_CALL == Txt("anki.imageOcclusion.setup()")
SCRIPT_END == Txt("</script>")

\* int(match.group(1))
IntOf(num) == CASE num = "1" -> 1 [] num = "01" -> 1 [] num = "2" -> 2 [] OTHER -> 0

\* The shape of one match of the pattern of _parse_occlusion_shapes; the
\* type and the parameters are those of IO_TEXT.
ShapeOf(m) ==
    [cloze |-> IntOf(m.a), type |-> "rect",
     params |-> <<[key |-> "left", value |-> ".1"]>>]

\* _parse_occlusion_shapes
parse_occlusion_shapes(occlusion_field) ==
    LET ms == SelectSeq(occlusion_field, IsImageOcclusion)
    IN  [k \in 1..Len(ms) |-> ShapeOf(ms[k])]

\* json.dumps of an int, of a dict of parameters, of one shape and of the list
DumpsInt(n) == CASE n = 1 -> "1" [] n = 2 -> "2" [] OTHER -> "0"

RECURSIVE DumpsParams(_)
DumpsParams(ps) ==
    IF ps = <<>> THEN ""
    ELSE "\"" \o ps[1].key \o "\": \"" \o ps[1].value \o "\""
         \o (IF Len(ps) > 1 THEN ", " ELSE "") \o DumpsParams(Tail(ps))

DumpsShape(sh) ==
    "{\"cloze\": " \o DumpsInt(sh.cloze) \o ", \"type\": \"" \o sh.type
    \o "\", \"params\": {" \o DumpsParams(sh.params) \o "}}"

RECURSIVE DumpsShapes(_)
DumpsShapes(shapes) ==
    IF shapes = <<>> THEN ""
    ELSE DumpsShape(shapes[1]) \o (IF Len(shapes) > 1 THEN ", " ELSE "")
         \o DumpsShapes(Tail(shapes))

dumps(shapes) == "[" \o DumpsShapes(shapes) \o "]"

\* _generate_io_script
generate_io_script(shapes, show_answer) ==
    Tok("io_script", dumps(shapes), IF show_answer THEN "true" ELSE "false", "")

\* html.replace("</script>", f"{io_script}\n</script>", 1)
ReplaceFirst(html, tok, by) ==
    LET p == CHOOSE k \in 1..Len(html) :
                 html[k] = tok /\ \A j \in 1..(k - 1) : html[j] # tok
    IN  SubSeq(html, 1, p - 1) \o by \o SubSeq(html, p + 1, Len(html))

\* _inject_io_script
inject_io_script(html, shapes, show_answer) ==
    LET io_script == generate_io_script(shapes, show_answer)
    IN  IF \E k \in 1..Len(html) : html[k] = SETUP_CALL
        THEN ReplaceEach(html, SETUP_CALL, <<io_script>>)
        ELSE IF \E k \in 1..Len(html) : html[k] = SCRIPT_END
        THEN ReplaceFirst(html, SCRIPT_END, <<io_script, Txt("\n"), SCRIPT_END>>)
        ELSE html \o <<Txt("\n<script>\n"), io_script, Txt("\n</script>")>>

\* template_idx after "if template_idx >= len(note_model.tmpls)"
TemplateIdx(nm, idx) == IF idx >= Len(nm.tmpls) THEN 0 ELSE idx

\* Mutant: the script is injected into the front before the back is rendered.
CardSteps_InjectBeforeBack(nt, nm, idx) ==
    LET tmpl == nm.tmpls[TemplateIdx(nm, idx) + 1]
        fs == build_field_map(nt.fields, nm.flds)
        front_html == render(tmpl.qfmt, fs, nt.tags, FALSE, <<>>)
        shapes == parse_occlusion_shapes(Get(fs, "Occlusion"))
    IN  [front_html |-> front_html,
         back_html |-> IF front_html = re_error THEN re_error
                       ELSE render(tmpl.afmt, fs, nt.tags, TRUE,
                                   inject_io_script(front_html, shapes, FALSE))]

\* front_html and back_html as the two calls of template_engine.render
\* return them; the second call is not made when the first one raises.
CardSteps(nt, nm, idx) ==
    LET tmpl == nm.tmpls[TemplateIdx(nm, idx) + 1]
        fs == build_field_map(nt.fields, nm.flds)
        front_html == render(tmpl.qfmt, fs, nt.tags, FALSE, <<>>)
    IN  [front_html |-> front_html,
         back_html |-> IF front_html = re_error THEN re_error
                       ELSE render(tmpl.afmt, fs, nt.tags, TRUE, front_html)]

\* A call of render_card raises for a model without templates and when a
\* call of render raises.
RenderCardRaises(nt, nm, idx) ==
    \/ nm.tmpls = <<>>
    \/ CardSteps(nt, nm, idx).back_html = re_error

\* BasicRenderer.render_card
BasicCard(nt, nm, idx) ==
    [front |-> CardSteps(nt, nm, idx).front_html,
     back |-> CardSteps(nt, nm, idx).back_html,
     css |-> nm.css,
     template_name |-> nm.tmpls[TemplateIdx(nm, idx) + 1].name]

\* ClozeRenderer.render_card
ClozeCard(nt, nm, idx) ==
    [front |-> CardSteps(nt, nm, idx).front_html,
     back |-> CardSteps(nt, nm, idx).back_html,
     css |-> nm.css]

\* MultiFieldRenderer.render_card
MultiFieldCard(nt, nm, idx) ==
    [front |-> CardSteps(nt, nm, idx).front_html,
     back |-> CardSteps(nt, nm, idx).back_html,
     css |-> nm.css,
     template_name |-> nm.tmpls[TemplateIdx(nm, idx) + 1].name,
     template_index |-> TemplateIdx(nm, idx),
     total_templates |-> Len(nm.tmpls)]

\* ImageOcclusionRenderer.render_card
ImageOcclusionCard(nt, nm, idx) ==
    LET shapes == parse_occlusion_shapes(
                      Get(build_field_map(nt.fields, nm.flds), "Occlusion"))
    IN  [front |-> inject_io_script(CardSteps(nt, nm, idx).front_html, shapes, FALSE),
         back |-> inject_io_script(CardSteps(nt, nm, idx).back_html, shapes, TRUE),
         css |-> nm.css]

\* render_card of the renderer r
render_card(r, nt, nm, idx) ==
    CASE r = "image_occlusion" -> ImageOcclusionCard(nt, nm, idx)
      [] r = "cloze" -> ClozeCard(nt, nm, idx)
      [] r = "multi_field" -> MultiFieldCard(nt, nm, idx)
      [] OTHER -> BasicCard(nt, nm, idx)

RenderCard ==
    /\ kpc = "call"
    /\ IF RenderCardRaises(note, note_model, template_idx)
       THEN /\ kpc' = "raised"
            /\ UNCHANGED <<card_steps, card>>
       ELSE /\ kpc' = "done"
            /\ card_steps' = CardSteps(note, note_model, template_idx)
            /\ card' = render_card(card_renderer, note, note_model, template_idx)
    /\ UNCHANGED <<card_renderer, note_model, note, template_idx>>
    /\ UNCHANGED <<fieldVars, noteVars, cardVars, renderVars, diffVars>>

\* The templates of a model: name, question format, answer format.
QFormats ==
    {<<Txt("q"), Fld("F")>>, <<Fld("Occlusion"), SETUP_CALL>>,
     <<Txt("<script>"), SCRIPT_END, SCRIPT_END>>, <<Cloze("Occlusion")>>}
AFormats ==
    {<<FrontSide, Txt("a")>>, <<FrontSide, SETUP_CALL>>,
     <<Fld("F"), Txt("<script>"), SCRIPT_END>>}
CardTemplates ==
    {[name |-> n, qfmt |-> q, afmt |-> a] :
        n \in {"Card 1"}, q \in QFormats, a \in AFormats}

\* The lists of templates of a model: none, one, or a second one after it.
TmplLists ==
    {<<>>} \cup {<<t>> : t \in CardTemplates}
      \cup {<<t, [name |-> "Card 2", qfmt |-> <<Fld("F")>>, afmt |-> <<FrontSide>>]>> :
               t \in CardTemplates}

\* The field definitions of a model.
CardFlds ==
    {<<[name |-> "Occlusion", ord |-> 0], [name |-> "F", ord |-> 1]>>,
     <<[name |-> "F", ord |-> 0]>>}

\* The field values of a note.
OcclusionValues ==
    {<<>>, <<Marker("1", IO_TEXT, "")>>,
     <<Marker("01", IO_TEXT, ""), Txt(" "), Marker("2", IO_TEXT, "")>>,
     <<Marker("1", "Paris", "")>>}
CardFValues == {<<Txt("Q")>>, <<SETUP_CALL>>, <<Esc("1")>>}
CardNoteFields ==
    {<<o>> : o \in OcclusionValues} \cup {<<o, f>> : o \in OcclusionValues, f \in CardFValues}

RenderCardInit ==
    /\ card_renderer \in {renderers[k] : k \in 1..Len(renderers)}
    /\ note_model \in {[tmpls |-> ts, flds |-> fl, css |-> ".card {}"] :
                          ts \in TmplLists, fl \in CardFlds}
    /\ note \in {[fields |-> nf, tags |-> <<>>] : nf \in CardNoteFields}
    /\ template_idx \in 0..MaxTmpls
    /\ card_steps = <<>>
    /\ card = <<>>
    /\ kpc = "call"
    /\ FieldIdle
    /\ NoteIdle
    /\ CardIdle
    /\ RenderIdle
    /\ DiffIdle

RenderCardNext == RenderCard

SpecRenderCard == RenderCardInit /\ [][RenderCardNext]_vars

(***************************************************************************)
(* Change detection (_compare_deck_versions) and page generation           *)
(* (HTMLDiffGenerator.generate_diff_page).  A deck is the list of its      *)
(* notes, those of its children after its own; a note that is None is the  *)
(* empty sequence and a note n that is there is <<n>>.  The field texts    *)
(* of a note are texts of the classifier; "\\" is the backslash.           *)
(***************************************************************************)
\* Largest number of notes of a deck version.
MaxNotes == 2

\* The note models of the two versions, by crowdanki_uuid.
before_models == {"m1", "m2"}
after_models == {"m1", "m3"}

\* The note model of a uuid.
ModelOf(uuid) ==
    [crowdanki_uuid |-> uuid, name |-> <<"Basic">>, type |-> NoteType_BASIC,
     flds |-> <<[name |-> "F", ord |-> 0]>>,
     tmpls |-> <<[name |-> "Card 1", qfmt |-> <<Fld("F")>>,
                  afmt |-> <<FrontSide, Txt("<hr>"), Fld("F")>>]>>,
     css |-> ".card {}"]

\* Position of a guid among the keys of a dict, 0 if it is not a key.
KeyIndex(m, guid) ==
    IF \E k \in 1..Len(m) : m[k].guid = guid
    THEN CHOOSE k \in 1..Len(m) : m[k].guid = guid
    ELSE 0

\* note_map[note.guid] = (note, deck_path) for the notes from the j-th on:
\* a guid seen before keeps its place and takes the later note.
RECURSIVE NoteMapFrom(_, _, _)
NoteMapFrom(notes, j, m) ==
    IF j > Len(notes) THEN m
    ELSE NoteMapFrom(notes, j + 1,
             IF KeyIndex(m, notes[j].guid) = 0
             THEN Append(m, notes[j])
             ELSE [m EXCEPT ![KeyIndex(m, notes[j].guid)] = notes[j]])

\* build_note_map: the items of the dict in insertion order.
build_note_map(deck) == NoteMapFrom(deck.notes, 1, <<>>)

\* sorted(tags)
TagRank(t) == IF t = "t" THEN 1 ELSE 2

RECURSIVE Insert(_, _)
Insert(t, sorted) ==
    IF sorted = <<>> THEN <<t>>
    ELSE IF TagRank(t) < TagRank(Head(sorted)) THEN <<t>> \o sorted
    ELSE <<Head(sorted)>> \o Insert(t, Tail(sorted))

RECURSIVE SortTags(_)
SortTags(ts) == IF ts = <<>> THEN <<>> ELSE Insert(Head(ts), SortTags(Tail(ts)))

\* Mutant: the tags are compared as the lists they are.
notes_equal_TagOrder(note1, note2) ==
    /\ note1.guid = note2.guid
    /\ note1.fields = note2.fields
    /\ note1.tags = note2.tags
    /\ note1.note_model_uuid = note2.note_model_uuid

\* _notes_equal
notes_equal(note1, note2) ==
    /\ note1.guid = note2.guid
    /\ note1.fields = note2.fields
    /\ SortTags(note1.tags) = SortTags(note2.tags)
    /\ note1.note_model_uuid = note2.note_model_uuid

\* NoteChange(...)
NoteChange(change_type, before_note, after_note, uuid, content_type, cosmetic) ==
    [change_type |-> change_type, before |-> before_note, after |-> after_note,
     note_model |-> ModelOf(uuid), content_change_type |-> content_type,
     cosmetic_changes |-> cosmetic]

\* The changes of the notes of one version when the other one is missing.
OneSided(m, models, change_type) ==
    LET known == SelectSeq(m, LAMBDA n : n.note_model_uuid \in models)
    IN  [k \in 1..Len(known) |->
            NoteChange(change_type,
                       IF change_type = "deleted" THEN <<known[k]>> ELSE <<>>,
                       IF change_type = "added" THEN <<known[k]>> ELSE <<>>,
                       known[k].note_model_uuid, ChangeType_CONTENT, <<>>)]

\* What one iteration of the loop over after_notes appends to changes.
AddedOrModified(after_note, bm) ==
    IF after_note.note_model_uuid \notin after_models THEN <<>>
    ELSE IF KeyIndex(bm, after_note.guid) = 0
    THEN <<NoteChange("added", <<>>, <<after_note>>, after_note.note_model_uuid,
                      ChangeType_CONTENT, <<>>)>>
    ELSE LET before_note == bm[KeyIndex(bm, after_note.guid)]
             c == classify_note_change(before_note.fields, after_note.fields)
         IN  IF notes_equal(before_note, after_note) THEN <<>>
             ELSE <<NoteChange("modified", <<before_note>>, <<after_note>>,
                               after_note.note_model_uuid, c.overall_type,
                               c.cosmetic_types)>>

\* What one iteration of the loop over before_notes appends to changes.
Deleted(before_note, am) ==
    IF KeyIndex(am, before_note.guid) = 0 /\ before_note.note_model_uuid \in before_models
    THEN <<NoteChange("deleted", <<before_note>>, <<>>, before_note.note_model_uuid,
                      ChangeType_CONTENT, <<>>)>>
    ELSE <<>>

\* _compare_deck_versions
compare_deck_versions(bd, ad) ==
    IF ~bd.present /\ ~ad.present THEN <<>>
    ELSE IF ~ad.present THEN OneSided(build_note_map(bd), before_models, "deleted")
    ELSE IF ~bd.present THEN OneSided(build_note_map(ad), after_models, "added")
    ELSE LET bm == build_note_map(bd)
             am == build_note_map(ad)
         IN  Flat([k \in 1..Len(am) |-> AddedOrModified(am[k], bm)])
             \o Flat([k \in 1..Len(bm) |-> Deleted(bm[k], am)])

CompareDeckVersions ==
    /\ dpc = "compare"
    /\ note_changes' = compare_deck_versions(before_deck, after_deck)
    /\ dpc' = "generate"
    /\ UNCHANGED <<before_deck, after_deck, rendered_changes>>
    /\ UNCHANGED <<fieldVars, noteVars, cardVars, renderVars, renderCardVars>>

\* A field text as the template engine reads it: a backslash and the
\* character after it are one escape, every other token is plain text.
RECURSIVE TemplateTokens(_)
TemplateTokens(text) ==
    IF text = <<>> THEN <<>>
    ELSE IF text[1] = "\\" /\ Len(text) > 1
    THEN <<Esc(text[2])>> \o TemplateTokens(SubSeq(text, 3, Len(text)))
    ELSE <<Txt(text[1])>> \o TemplateTokens(Tail(text))

\* The note as render_card takes it.
CardNote(n) ==
    [fields |-> [k \in 1..Len(n.fields) |-> TemplateTokens(n.fields[k])],
     tags |-> [k \in 1..Len(n.tags) |-> <<Txt(n.tags[k])>>]]

\* rendered_before or rendered_after of _render_change: None for no note.
\* The texts hold no <img> element, which is all that
\* update_media_references_in_html rewrites.
RenderedSide(side, nm) ==
    IF side = <<>> THEN <<>>
    ELSE <<render_card(select_renderer(nm.name, nm.type, Len(nm.flds), Len(nm.tmpls)),
                       CardNote(side[1]), nm, 0)>>

\* A call of _render_change raises when one of its calls of render_card does.
RenderChangeRaises(change) ==
    \/ change.before # <<>> /\ RenderCardRaises(CardNote(change.before[1]), change.note_model, 0)
    \/ change.after # <<>> /\ RenderCardRaises(CardNote(change.after[1]), change.note_model, 0)

\* _render_change
render_change(change) ==
    [change_type |-> change.change_type,
     guid |-> IF change.after # <<>> THEN change.after[1].guid ELSE change.before[1].guid,
     before |-> change.before, after |-> change.after,
     rendered_before |-> RenderedSide(change.before, change.note_model),
     rendered_after |-> RenderedSide(change.after, change.note_model)]

\* changes_to_render of generate_diff_page
changes_to_render(changes) ==
    SelectSeq(changes, LAMBDA change : ~is_cosmetic_only(change.content_change_type))

\* generate_diff_page: the rendered changes the page is written from; an
\* exception of _render_change ends the call and no page is written.
GenerateDiffPage ==
    /\ dpc = "generate"
    /\ LET todo == changes_to_render(note_changes)
       IN  IF \E k \in 1..Len(todo) : RenderChangeRaises(todo[k])
           THEN dpc' = "raised" /\ rendered_changes' = rendered_changes
           ELSE /\ dpc' = "done"
                /\ rendered_changes' = [k \in 1..Len(todo) |-> render_change(todo[k])]
    /\ UNCHANGED <<before_deck, after_deck, note_changes>>
    /\ UNCHANGED <<fieldVars, noteVars, cardVars, renderVars, renderCardVars>>

\* The notes of a guid: one field text each.
GUIDS == {"g1", "g2"}
NotesOf(guid) ==
    {[guid |-> guid, fields |-> <<f>>, tags |-> <<"t", "u">>, note_model_uuid |-> "m1"] :
        f \in {<<"a">>, <<"A">>, <<"a", "!">>, <<"\\", "A">>}}
    \cup {[guid |-> guid, fields |-> <<<<"a">>>>, tags |-> ts, note_model_uuid |-> "m1"] :
        ts \in {<<"u", "t">>, <<"t">>}}
    \cup {[guid |-> guid, fields |-> <<<<"a">>>>, tags |-> <<"t", "u">>, note_model_uuid |-> u] :
        u \in {"m2", "m3"}}

\* The versions of a deck: missing, or a list of notes.
DeckVersions ==
    {[present |-> FALSE]}
    \cup {[present |-> TRUE, notes |-> ns] :
            ns \in SeqsUpTo(UNION {NotesOf(g) : g \in GUIDS}, MaxNotes)}

DiffInit ==
    /\ before_deck \in DeckVersions
    /\ after_deck \in DeckVersions
    /\ note_changes = <<>>
    /\ rendered_changes = <<>>
    /\ dpc = "compare"
    /\ FieldIdle
    /\ NoteIdle
    /\ CardIdle
    /\ RenderIdle
    /\ RenderCardIdle

DiffNext == CompareDeckVersions \/ GenerateDiffPage

SpecDiff == DiffInit /\ [][DiffNext]_vars

(***************************************************************************)
(* Properties of classify_field_change (specification Spec).               *)
(***************************************************************************)
IsContentSentinel(r) == r.kind = ChangeType_CONTENT /\ r.subkinds = <<>>

Only(r, t) == r.kind = t /\ r.subkinds = <<t>>

Returned == pc = "done"

\* C1: for distinct texts the result is (content, []) exactly when the
\* normalized forms of the two texts differ, and when the normalized forms
\* are equal the kind is never content.
C1_ContentIffNormalizedDiffer ==
    (Returned /\ before # after) =>
        /\ IsContentSentinel(result)
             <=> normalize_for_comparison(before) # normalize_for_comparison(after)
        /\ normalize_for_comparison(before) = normalize_for_comparison(after)
             => result.kind # ChangeType_CONTENT

C1_Witness ==
    /\ Returned
    /\ before # after
    /\ normalize_for_comparison(before) = normalize_for_comparison(after)
    /\ get_text(before) # get_text(after)
    /\ result.kind = ChangeType_MIXED_COSMETIC

\* C2: classify_field_change(x, x) is (content, []) for every text x, and no
\* detector runs for it.
C2_EqualTextsAreSentinel ==
    (Returned /\ before = after) => (IsContentSentinel(result) /\ result.ran = <<>>)

C2_Witness ==
    /\ Returned
    /\ before = after
    /\ Len(before) = 2
    /\ IsContentSentinel(result)

\* The text without its whitespace characters and whitespace entities.
EraseWhitespace(s) == SelectSeq(s, LAMBDA c : ~IsSpace(c) /\ c \notin WHITESPACE_ENTITIES)

\* a and b differ only by inserted or removed whitespace runs.
DifferOnlyByWhitespace(a, b) == a # b /\ EraseWhitespace(a) = EraseWhitespace(b)

\* C3: every pair of texts that differ only by inserted or removed whitespace
\* runs (whitespace characters or whitespace entities) is classified
\* (whitespace, [whitespace]), also when the whitespace is inserted inside a
\* word.
C3_WhitespaceOnlyIsWhitespace ==
    (Returned /\ DifferOnlyByWhitespace(before, after))
        => Only(result, ChangeType_WHITESPACE)

\* a and b differ by whitespace runs and, elsewhere, in letter case only.
DifferByWhitespaceAndCase(a, b) ==
    /\ EraseWhitespace(lower(a)) = EraseWhitespace(lower(b))
    /\ EraseWhitespace(a) # EraseWhitespace(b)
    /\ lower(a) # lower(b)

\* C4 as claimed: texts that differ by whitespace runs and additionally in
\* letter case are classified (whitespace, [whitespace]).
C4_WhitespaceBeatsCase ==
    (Returned /\ DifferByWhitespaceAndCase(before, after))
        => Only(result, ChangeType_WHITESPACE)

\* C4 as amended: texts that differ by whitespace runs and additionally in
\* letter case are never classified whitespace: the result is (content, [])
\* when their normalized forms differ, and otherwise the subkinds hold case
\* and do not hold whitespace.
C4_WhitespaceAndCaseIsNotWhitespace ==
    (Returned /\ DifferByWhitespaceAndCase(before, after)) =>
        IF normalize_for_comparison(before) = normalize_for_comparison(after)
        THEN /\ result.kind # ChangeType_WHITESPACE
             /\ ChangeType_WHITESPACE \notin Elems(result.subkinds)
             /\ ChangeType_CASE \in Elems(result.subkinds)
        ELSE IsContentSentinel(result)

C4_Witness ==
    /\ Returned
    /\ DifferByWhitespaceAndCase(before, after)
    /\ normalize_for_comparison(before) = normalize_for_comparison(after)
    /\ Len(before) >= 2
    /\ ChangeType_CASE \in Elems(result.subkinds)

\* a and b differ only in letter case.
DifferOnlyInCase(a, b) == a # b /\ lower(a) = lower(b)

\* C5: texts that differ only in letter case are classified (case, [case]).
C5_CaseOnlyIsCase ==
    (Returned /\ DifferOnlyInCase(before, after)) => Only(result, ChangeType_CASE)

\* The text without its punctuation characters.
ErasePunctuation(s) == SelectSeq(s, LAMBDA c : c \notin {"!", "."})

\* a and b differ only in punctuation characters.
DifferOnlyInPunctuation(a, b) == a # b /\ ErasePunctuation(a) = ErasePunctuation(b)

\* C6: texts that differ only in punctuation characters are classified
\* (punctuation, [punctuation]).
C6_PunctuationOnlyIsPunctuation ==
    (Returned /\ DifferOnlyInPunctuation(before, after))
        => Only(result, ChangeType_PUNCTUATION)

\* a and b differ only in how a character other than whitespace is written:
\* as itself or as its entity.
DifferOnlyInEntityEncoding(a, b) ==
    /\ a # b
    /\ Len(a) = Len(b)
    /\ \A k \in 1..Len(a) :
           a[k] # b[k] => (DecodeChar(a[k]) = DecodeChar(b[k])
                           /\ ~IsSpace(DecodeChar(a[k])))

\* C7: texts whose only difference is the entity encoding of the same
\* character are classified (entities, [entities]).
C7_EntityEncodingIsEntities ==
    (Returned /\ DifferOnlyInEntityEncoding(before, after))
        => Only(result, ChangeType_ENTITIES)

RemoveTags(s) == SelectSeq(s, LAMBDA c : ~IsTag(c))

TagsOf(s) == SelectSeq(s, IsTag)

\* a and b differ only by markup tags around identical visible text.
DifferOnlyByTags(a, b) ==
    /\ RemoveTags(a) = RemoveTags(b)
    /\ TagsOf(a) # TagsOf(b)
    /\ get_text(a) = get_text(b)

NoteReturned == npc = "done"

\* The positions 0..max_len-1 at which the padded field lists differ.
DifferingPositions ==
    {k \in 0..(Max(Len(before_fields), Len(after_fields)) - 1) :
        FieldAt(before_fields, k) # FieldAt(after_fields, k)}

FieldResult(k) == classify_field_change(FieldAt(before_fields, k), FieldAt(after_fields, k))

ContentPositions == {k \in DifferingPositions : FieldResult(k).kind = ChangeType_CONTENT}

\* The union of the subkinds of all differing fields.
SubkindUnion == UNION {Elems(FieldResult(k).subkinds) : k \in DifferingPositions}

\* C9: if any positional field pair classifies as content, the overall kind
\* is content, however many other differing fields are cosmetic-only and
\* whatever the order of the fields.
C9_ContentFieldDominates ==
    (NoteReturned /\ ContentPositions # {}) => overall_type = ChangeType_CONTENT

\* A content field followed by a cosmetic-only field.
C9_Witness ==
    /\ NoteReturned
    /\ overall_type = ChangeType_CONTENT
    /\ \E k \in ContentPositions :
           \E m \in DifferingPositions \ ContentPositions : k < m

\* C10: when no differing field is content, one distinct subkind in the union
\* of the subkinds of all differing fields gives that subkind as the overall
\* kind, more than one gives mixed_cosmetic, and cosmetic_types is that union.
C10_OverallFromSubkindUnion ==
    (NoteReturned /\ ContentPositions = {}) =>
        /\ Cardinality(SubkindUnion) = 1 => SubkindUnion = {overall_type}
        /\ Cardinality(SubkindUnion) > 1 => overall_type = ChangeType_MIXED_COSMETIC
        /\ cosmetic_types = SubkindUnion

\* Two cosmetic-only fields with different single subkinds.
C10_Witness ==
    /\ NoteReturned
    /\ ContentPositions = {}
    /\ overall_type = ChangeType_MIXED_COSMETIC
    /\ \E k, m \in DifferingPositions :
           /\ Only(FieldResult(k), ChangeType_WHITESPACE)
           /\ Only(FieldResult(m), ChangeType_HTML_FORMATTING)

\* C11: with zero differing positions after padding, classify_note_change
\* returns content with an empty per-field breakdown and an empty subkind
\* set, so the change is not cosmetic-only.
C11_NoDifferenceIsContent ==
    (NoteReturned /\ DifferingPositions = {}) =>
        /\ overall_type = ChangeType_CONTENT
        /\ field_changes = {}
        /\ cosmetic_types = {}
        /\ ~is_cosmetic_only(overall_type)

\* Equal after padding only: one list is the other with an empty field more.
C11_Witness ==
    /\ NoteReturned
    /\ DifferingPositions = {}
    /\ Len(before_fields) = 2
    /\ Len(after_fields) = 1
    /\ overall_type = ChangeType_CONTENT

(***************************************************************************)
(* Properties of the padding of short field lists (specification           *)
(* SpecPadding).                                                           *)
(***************************************************************************)
\* The list padded with empty strings to n fields.
Padded(list, n) == [k \in 1..n |-> IF k <= Len(list) THEN list[k] ELSE <<>>]

\* C12: short field lists are read as padded with empty strings and never
\* raise an index error: classify_note_change compares the positions
\* 0..max(len(before), len(after))-1 of the padded lists, and the field map
\* gives "" to every field definition whose ordinal is no index of the note's
\* fields.
C12_ShortFieldListsArePadded ==
    LET n == Max(Len(before_fields), Len(after_fields))
    IN  /\ npc # "raised"
        /\ cpc # "raised"
        /\ npc = "done" =>
               /\ i = n
               /\ {c.field : c \in field_changes}
                    = {k \in 0..(n - 1) :
                          Padded(before_fields, n)[k + 1] # Padded(after_fields, n)[k + 1]}
        /\ cpc = "done" =>
               /\ Len(field_map) = Len(flds)
               /\ \A k \in 1..Len(flds) :
                      /\ field_map[k].name = flds[k].name
                      /\ field_map[k].value
                           = Padded(note_fields, Max(Len(note_fields), flds[k].ord + 1))
                                 [flds[k].ord + 1]

\* Both lists and the note are shorter than the model's field definitions.
C12_Witness ==
    /\ npc = "done"
    /\ cpc = "done"
    /\ Len(before_fields) = 2
    /\ Len(after_fields) = 1
    /\ before_fields[2] # <<>>
    /\ Len(flds) = 3
    /\ field_map[1].value # <<>>
    /\ field_map[3].value = <<>>

(***************************************************************************)
(* Properties of the renderer dispatch (specification SpecCard).           *)
(***************************************************************************)
\* C20: the renderer selected is image-occlusion iff the lower-cased model
\* name contains both "image" and "occlusion"; otherwise cloze iff the type
\* is Cloze; otherwise multi-field iff the type is Basic and the model has
\* more than 3 fields or more than 1 template; otherwise basic.
C20_DispatchOrder ==
    cpc \in {"fields", "done"} =>
        selected =
            IF NameContains(model_name, "image") /\ NameContains(model_name, "occlusion")
            THEN "image_occlusion"
            ELSE IF model_type = NoteType_CLOZE THEN "cloze"
            ELSE IF model_type = NoteType_BASIC /\ (Len(flds) > 3 \/ n_tmpls > 1)
                 THEN "multi_field"
            ELSE "basic"

\* An image-occlusion model of type Basic that the multi-field predicate
\* accepts as well.
C20_Witness ==
    /\ cpc = "done"
    /\ model_name = <<"Image", "occlusion">>
    /\ model_type = NoteType_BASIC
    /\ Len(flds) = 2
    /\ n_tmpls = 2
    /\ selected = "image_occlusion"

(***************************************************************************)
(* Properties of AnkiTemplateEngine.render (specification SpecRender).     *)
(***************************************************************************)
Rendered == rpc = "done"
RenderEnded == rpc \in {"done", "raised"}

Has(t, tok) == \E k \in 1..Len(t) : t[k] = tok

\* C13: render raises no exception, whatever the template, the field
\* mapping, the tags, the side flag and the front HTML.
C13_RenderNeverRaises == rpc # "raised"

\* A template of plain text and field placeholders only.
PlainFieldTemplate(t) ==
    \A k \in 1..Len(t) :
        \/ t[k].k = "txt"
        \/ t[k].k = "field" /\ t[k] \notin {FrontSide, Tags}

\* The template with every field placeholder replaced by the mapped value,
\* and by nothing for a field that is not mapped.
Substituted(t, fs) ==
    Flat([k \in 1..Len(t) |-> IF t[k].k = "field" THEN Get(fs, t[k].a) ELSE <<t[k]>>])

\* C14: render replaces every field placeholder by the mapped value of its
\* field, and by the empty string when the field is not mapped.
C14_PlaceholdersBecomeValues ==
    (Rendered /\ PlainFieldTemplate(template)) =>
        steps.final = Substituted(template, fields)

\* The trimmed value is empty.
TrimmedEmpty(value) == \A k \in 1..Len(value) : value[k] \in {Txt(" "), Txt("\n")}

\* t holds one conditional block and no other opening or closing tag.
SingleLevelBlock(t) ==
    /\ Cardinality({k \in 1..Len(t) : t[k].k \in {"open", "neg"}}) = 1
    /\ Cardinality({k \in 1..Len(t) : t[k].k = "close"}) = 1
    /\ \E p, q \in 1..Len(t) :
          p < q /\ t[p].k \in {"open", "neg"} /\ t[q] = Close(t[p].a)

\* t with its one block replaced by the block's content or removed.
BlockResolved(t, fs) ==
    LET p == CHOOSE p \in 1..Len(t) : t[p].k \in {"open", "neg"}
        q == CHOOSE q \in 1..Len(t) : t[q].k = "close"
        empty == TrimmedEmpty(Get(fs, StripName(t[p].a)))
        shown == IF t[p].k = "open" THEN ~empty ELSE empty
    IN  SubSeq(t, 1, p - 1)
          \o (IF shown THEN SubSeq(t, p + 1, q - 1) ELSE <<>>)
          \o SubSeq(t, q + 1, Len(t))

\* C15: a single-level positive block for field F is replaced by its content
\* when F's trimmed value is non-empty and removed otherwise; a negative
\* block is replaced by its content when F's trimmed value is empty or F is
\* not mapped, and removed otherwise.  A positive block around "yes" renders
\* to "yes" or to "".
C15_SingleLevelConditional ==
    /\ (RenderEnded /\ SingleLevelBlock(steps.cloze)) =>
           steps.conditionals = BlockResolved(steps.cloze, fields)
    /\ (Rendered /\ template = <<Open("F"), Txt("yes"), Close("F")>>) =>
           steps.final = IF TrimmedEmpty(Get(fields, "F")) THEN <<>> ELSE <<Txt("yes")>>

\* The example: a positive block on a field mapped to "".
C15_Witness ==
    /\ Rendered
    /\ template = <<Open("F"), Txt("yes"), Close("F")>>
    /\ fields = <<[name |-> "F", value |-> <<>>]>>
    /\ steps.final = <<>>

\* The value with every marker replaced by an element of the marker's
\* ordinal and answer text, everything else kept in place.
ClozeExpansion(value) ==
    [k \in 1..Len(value) |->
        IF value[k].k = "marker"
        THEN [k |-> "span", a |-> value[k].a, b |-> value[k].b, c |-> ""]
        ELSE value[k]]

\* The value is made of cloze markers and plain text.
MarkersAndText(value) == \A k \in 1..Len(value) : value[k].k \in {"marker", "txt"}

\* C16: expanding a cloze macro for field F replaces every marker of F's
\* value, whatever its ordinal, by an element with the marker's ordinal and
\* answer text; the text outside markers is kept in order and no hint
\* appears in the output.  For a value of markers and plain text the
\* expansion is the result of render.
C16_ClozeExpansion ==
    /\ RenderEnded =>
           /\ steps.cloze =
                  Flat([k \in 1..Len(steps.tags) |->
                           IF steps.tags[k].k = "cloze"
                           THEN ClozeExpansion(Get(fields, steps.tags[k].a))
                           ELSE <<steps.tags[k]>>])
           /\ \A k \in 1..Len(steps.cloze) : steps.cloze[k].k = "span" => steps.cloze[k].c = ""
    /\ (Rendered /\ template = <<Cloze("F")>> /\ MarkersAndText(Get(fields, "F"))) =>
           steps.final = ClozeExpansion(Get(fields, "F"))

\* Markers of two ordinals, one with a hint.
C16_Witness ==
    /\ Rendered
    /\ template = <<Cloze("F")>>
    /\ Get(fields, "F") = <<Marker("2", "b", "hint"), Marker("1", IO_TEXT, "")>>
    /\ steps.final = <<Span("2", "b"), Span("1", IO_TEXT)>>

\* t holds s as a contiguous part.
Contains(t, s) == \E p \in 0..(Len(t) - Len(s)) : SubSeq(t, p + 1, p + Len(s)) = s

\* C17 as stated: on the answer side a template with the front-side
\* placeholder renders to a result that contains the front HTML; on the
\* question side the front HTML is not inserted.
C17_FrontSideAlwaysInResult ==
    Rendered =>
        /\ (is_answer /\ Has(template, FrontSide)) => Contains(steps.final, front_side_html)
        /\ ~is_answer => steps.final = render(template, fields, tags, FALSE, <<>>)

\* A piece of text that stands for the front HTML.
FRONT_MARK == Txt("[front]")

\* C17: on the answer side the front HTML is put in for every front-side
\* placeholder and no later step alters it: the result is the result for an
\* opaque piece of text in its place, with the front HTML in place of that
\* text; so the front HTML is in the result wherever its placeholder is not
\* inside a conditional block that is removed.  On the question side the
\* front HTML is not inserted and the result does not depend on it.
C17_FrontSideVerbatimWhereKept ==
    Rendered =>
        /\ is_answer =>
               steps.final =
                   LET marked == render(template, fields, tags, TRUE, <<FRONT_MARK>>)
                   IN  Flat([k \in 1..Len(marked) |->
                               IF marked[k] = FRONT_MARK THEN front_side_html
                               ELSE <<marked[k]>>])
        /\ (is_answer /\ Has(template, FrontSide)
                      /\ Contains(steps.conditionals, front_side_html)) =>
               Contains(steps.final, front_side_html)
        /\ ~is_answer => steps.final = render(template, fields, tags, FALSE, <<>>)

\* The front HTML, with a shape descriptor, is inserted after other text.
C17_Witness ==
    /\ Rendered
    /\ is_answer
    /\ template = <<Txt("a"), FrontSide>>
    /\ front_side_html = <<Txt("q"), Marker("1", IO_TEXT, "")>>
    /\ steps.final = <<Txt("a"), Txt("q"), Marker("1", IO_TEXT, "")>>

\* The image-occlusion descriptors of t, in order.
Descriptors(t) == SelectSeq(t, IsImageOcclusion)

NoTemplateSyntax(h) == \A k \in 1..Len(h) : ~IsPlaceholder(h[k])

\* C19: an output of render without template syntax is rendered to itself,
\* whatever the fields, the tags, the side and the front HTML.
C19_RenderIdempotent ==
    (Rendered /\ NoTemplateSyntax(steps.final)) =>
        \A fs \in FieldMaps, ts \in TagLists, answer \in BOOLEAN, front \in FrontHtmls :
            render(steps.final, fs, ts, answer, front) = steps.final

(***************************************************************************)
(* Properties of the subkind list (specification SpecCharRef).             *)
(***************************************************************************)
COSMETIC_SUBKINDS ==
    {ChangeType_WHITESPACE, ChangeType_ENTITIES, ChangeType_HTML_FORMATTING,
     ChangeType_CASE, ChangeType_PUNCTUATION}

\* None of the five detectors accepts the pair.
NoDetectorMatches(a, b) ==
    /\ ~is_whitespace_change(a, b)
    /\ ~is_entity_change(a, b)
    /\ ~is_html_formatting_change(a, b)
    /\ ~is_case_change(a, b)
    /\ ~is_punctuation_change(a, b)

\* C23: for distinct texts with equal normalized forms the subkind list is
\* not empty and holds only whitespace, entities, html_formatting, case and
\* punctuation; the kind is the one subkind of a list of one element and
\* mixed_cosmetic for a longer list; when no detector matches the result is
\* (html_formatting, [html_formatting]).
C23_SubkindsNeverEmpty ==
    (/\ Returned
     /\ before # after
     /\ normalize_for_comparison(before) = normalize_for_comparison(after)) =>
        /\ result.subkinds # <<>>
        /\ Elems(result.subkinds) \subseteq COSMETIC_SUBKINDS
        /\ Len(result.subkinds) = 1 => result.kind = result.subkinds[1]
        /\ Len(result.subkinds) > 1 => result.kind = ChangeType_MIXED_COSMETIC
        /\ NoDetectorMatches(before, after) => Only(result, ChangeType_HTML_FORMATTING)

\* No detector matches U+00E9 against "eacute;" after a hexadecimal
\* reference to '&'.
C23_Witness ==
    /\ Returned
    /\ before # after
    /\ normalize_for_comparison(before) = normalize_for_comparison(after)
    /\ NoDetectorMatches(before, after)
    /\ Only(result, ChangeType_HTML_FORMATTING)

(***************************************************************************)
(* Further properties of classify_note_change (specification SpecNote).    *)
(***************************************************************************)
\* C24: when classify_note_change returns an overall kind other than
\* content, at least one position differs and every differing position has
\* a field-level kind other than content.
C24_CosmeticOverallMeansCosmeticFields ==
    (NoteReturned /\ overall_type # ChangeType_CONTENT) =>
        /\ DifferingPositions # {}
        /\ \A k \in DifferingPositions : FieldResult(k).kind # ChangeType_CONTENT
        /\ \A c \in field_changes : c.type # ChangeType_CONTENT

\* Two differing fields, both cosmetic-only.
C24_Witness ==
    /\ NoteReturned
    /\ overall_type # ChangeType_CONTENT
    /\ Cardinality(DifferingPositions) = 2
    /\ \A k \in DifferingPositions : FieldResult(k).kind # ChangeType_CONTENT

\* The fields of a note pair that are individually mixed_cosmetic.
MixedFields(bf, af) ==
    {k \in 0..(Max(Len(bf), Len(af)) - 1) :
        /\ FieldAt(bf, k) # FieldAt(af, k)
        /\ classify_field_change(FieldAt(bf, k), FieldAt(af, k)).kind
             = ChangeType_MIXED_COSMETIC}

SINGLE_SUBKINDS ==
    {ChangeType_WHITESPACE, ChangeType_ENTITIES, ChangeType_HTML_FORMATTING,
     ChangeType_CASE, ChangeType_PUNCTUATION}

\* C25 as stated: among the field lists classify_note_change is called with
\* there are some with two differing fields that are each mixed_cosmetic and
\* an overall kind that is one specific subkind.
C25_MixedFieldsCollapseToOneSubkind ==
    NoteReturned =>
        \E bf \in SeqsUpTo(FieldPool, MaxFields) :
            \E af \in SeqsUpTo(FieldPool, MaxFields - Len(bf)) :
                /\ Cardinality(MixedFields(bf, af)) >= 2
                /\ classify_note_change(bf, af).overall_type \in SINGLE_SUBKINDS

\* C25: a differing field that is mixed_cosmetic never leaves the overall
\* kind a single subkind: the overall kind is content when some field is
\* content and mixed_cosmetic otherwise, also when the subkind sets of the
\* mixed fields coincide.  The overall kind is a single subkind only when
\* every differing field has that one subkind and nothing else.
C25_MixedFieldMakesOverallMixed ==
    NoteReturned =>
        /\ MixedFields(before_fields, after_fields) # {} =>
               overall_type = IF ContentPositions # {} THEN ChangeType_CONTENT
                              ELSE ChangeType_MIXED_COSMETIC
        /\ overall_type \in SINGLE_SUBKINDS =>
               \A k \in DifferingPositions : FieldResult(k).subkinds = <<overall_type>>

\* Two mixed_cosmetic fields with the same subkinds; the overall kind is
\* mixed_cosmetic.
C25_Witness ==
    /\ NoteReturned
    /\ Cardinality(MixedFields(before_fields, after_fields)) = 2
    /\ \A k, m \in MixedFields(before_fields, after_fields) :
           FieldResult(k).subkinds = FieldResult(m).subkinds
    /\ ContentPositions = {}
    /\ overall_type = ChangeType_MIXED_COSMETIC

(***************************************************************************)
(* Symmetry of the classification (specification SpecSymmetry).            *)
(***************************************************************************)
\* C30: classify_field_change(a, b) and classify_field_change(b, a) return
\* the same kind and the same subkind list, and classify_note_change(X, Y)
\* and classify_note_change(Y, X) return the same overall kind.
C30_ClassificationSymmetric ==
    /\ Returned =>
           /\ result.kind = classify_field_change(after, before).kind
           /\ result.subkinds = classify_field_change(after, before).subkinds
    /\ NoteReturned =>
           overall_type = classify_note_change(after_fields, before_fields).overall_type

\* A pair with an entity on one side only, classified in both directions.
C30_Witness ==
    /\ Returned
    /\ EntitySet(before) # {}
    /\ EntitySet(after) = {}
    /\ ChangeType_ENTITIES \in Elems(result.subkinds)
    /\ result.subkinds = classify_field_change(after, before).subkinds

\* Field lists of different lengths with a cosmetic overall kind.
C30_NoteWitness ==
    /\ NoteReturned
    /\ Len(before_fields) > Len(after_fields)
    /\ overall_type \notin {ChangeType_CONTENT, "none"}
    /\ overall_type = classify_note_change(after_fields, before_fields).overall_type

(***************************************************************************)
(* Further properties of AnkiTemplateEngine.render (specification          *)
(* SpecRender).                                                            *)
(***************************************************************************)
\* The items of the field mapping in the opposite order.
Reversed(fs) == [k \in 1..Len(fs) |-> fs[Len(fs) + 1 - k]]

\* No value of the mapping holds a backslash.
NoBackslash(fs) == \A j \in 1..Len(fs) : \A k \in 1..Len(fs[j].value) : fs[j].value[k].k # "esc"

\* C26: text put in from a field value is not read as template syntax by a
\* later step: (a) a value with placeholder or cloze-marker text, put in
\* through a plain field placeholder, is in the output unchanged, and (b)
\* the result does not depend on the order of the items of the mapping.
C26_SinglePass ==
    (Rendered /\ NoBackslash(fields)) =>
        /\ template = <<Fld("F")>> => steps.final = Get(fields, "F")
        /\ steps.final = render(template, Reversed(fields), tags, is_answer, front_side_html)

\* C27: the content of a positive block on F inside a positive block on G
\* is in the output only if the trimmed values of both F and G are not
\* empty.
C27_NestedBlocksEvaluated ==
    (Rendered /\ template = NestedBlock /\ Has(steps.final, Txt("yes"))) =>
        /\ ~TrimmedEmpty(Get(fields, "G"))
        /\ ~TrimmedEmpty(Get(fields, "F"))

(***************************************************************************)
(* Properties of render_card (specification SpecRenderCard).               *)
(***************************************************************************)
CardReturned == kpc = "done"

\* C21: for each of the four renderers the record render_card returns has
\* the front HTML, the back HTML, the CSS of the model and the display name
\* of the selected template.
C21_CardHasTemplateName ==
    CardReturned =>
        /\ {"front", "back", "css", "template_name"} \subseteq DOMAIN card
        /\ card.css = note_model.css
        /\ card.template_name = note_model.tmpls[TemplateIdx(note_model, template_idx) + 1].name

\* The visualization snippets of an HTML.
Snippets(html) == SelectSeq(html, LAMBDA x : x.k = "io_script")

\* The shape list of the Occlusion field of the note.
OcclusionShapes ==
    parse_occlusion_shapes(Get(build_field_map(note.fields, note_model.flds), "Occlusion"))

\* C28: the image-occlusion renderer renders the back from the front as it
\* was before a snippet was injected; the front it returns has snippets of
\* the question style only and the back snippets of the answer style only,
\* at least one each, all built from the shape list of the Occlusion field.
C28_SnippetsPerSide ==
    (CardReturned /\ card_renderer = "image_occlusion") =>
        LET tmpl == note_model.tmpls[TemplateIdx(note_model, template_idx) + 1]
            fs == build_field_map(note.fields, note_model.flds)
        IN  /\ Snippets(card_steps.front_html) = <<>>
            /\ card_steps.back_html = render(tmpl.afmt, fs, note.tags, TRUE, card_steps.front_html)
            /\ Snippets(card.front) # <<>>
            /\ \A k \in 1..Len(Snippets(card.front)) :
                   Snippets(card.front)[k] = Tok("io_script", dumps(OcclusionShapes), "false", "")
            /\ Snippets(card.back) # <<>>
            /\ \A k \in 1..Len(Snippets(card.back)) :
                   Snippets(card.back)[k] = Tok("io_script", dumps(OcclusionShapes), "true", "")

\* An image-occlusion card was returned whose back took the setup call of
\* the front in through {{FrontSide}}, for a note with two shapes.
C28_Witness ==
    /\ CardReturned
    /\ card_renderer = "image_occlusion"
    /\ Len(OcclusionShapes) = 2
    /\ Has(card_steps.front_html, SETUP_CALL)
    /\ Has(card_steps.back_html, SETUP_CALL)
    /\ Len(Snippets(card.back)) = 2

(***************************************************************************)
(* Properties of the change detection and of the page generation           *)
(* (specification SpecDiff).                                               *)
(***************************************************************************)
Compared == dpc # "compare"

\* The guid of a change (NoteChange.guid).
ChangeGuid(change) ==
    IF change.after # <<>> THEN change.after[1].guid ELSE change.before[1].guid

\* The changes of note_changes for a guid.
ChangesFor(guid) == SelectSeq(note_changes, LAMBDA change : ChangeGuid(change) = guid)

\* The number of times a tag is in a tag list.
TagCount(ts, t) == Cardinality({k \in 1..Len(ts) : ts[k] = t})

\* Two notes differ in their fields, their tags as multisets or their model.
NotesDiffer(n1, n2) ==
    \/ n1.fields # n2.fields
    \/ \E t \in {"t", "u"} : TagCount(n1.tags, t) # TagCount(n2.tags, t)
    \/ n1.note_model_uuid # n2.note_model_uuid

\* The one change the two versions call for on a guid, or none.
ExpectedChanges(guid) ==
    LET bm == build_note_map(before_deck)
        am == build_note_map(after_deck)
        b == KeyIndex(bm, guid)
        a == KeyIndex(am, guid)
    IN  IF a # 0 /\ b = 0 /\ am[a].note_model_uuid \in after_models
        THEN <<[change_type |-> "added", before |-> <<>>, after |-> <<am[a]>>]>>
        ELSE IF a = 0 /\ b # 0 /\ bm[b].note_model_uuid \in before_models
        THEN <<[change_type |-> "deleted", before |-> <<bm[b]>>, after |-> <<>>]>>
        ELSE IF a # 0 /\ b # 0 /\ am[a].note_model_uuid \in after_models
                /\ NotesDiffer(bm[b], am[a])
        THEN <<[change_type |-> "modified", before |-> <<bm[b]>>, after |-> <<am[a]>>]>>
        ELSE <<>>

\* C29: for two present versions there is at most one change for a guid:
\* added (after only) iff the guid is in the after version only, deleted
\* (before only) iff it is in the before version only, modified (both) iff
\* it is in both and the notes differ in fields, tags as multisets or
\* model; none when the notes are equal or the model of the note is not
\* known in its version.
C29_OneChangePerGuidByMembership ==
    (Compared /\ before_deck.present /\ after_deck.present) =>
        \A guid \in GUIDS :
            [k \in 1..Len(ChangesFor(guid)) |->
                [change_type |-> ChangesFor(guid)[k].change_type,
                 before |-> ChangesFor(guid)[k].before,
                 after |-> ChangesFor(guid)[k].after]]
              = ExpectedChanges(guid)

\* Two present versions were compared: one guid has notes that differ in
\* the model only, the other guid is in the after version only.
C29_Witness ==
    /\ Compared
    /\ before_deck.present
    /\ after_deck.present
    /\ \E k \in 1..Len(note_changes) :
           /\ note_changes[k].change_type = "modified"
           /\ note_changes[k].before[1].fields = note_changes[k].after[1].fields
           /\ note_changes[k].before[1].tags = note_changes[k].after[1].tags
    /\ \E k \in 1..Len(note_changes) : note_changes[k].change_type = "added"

\* The changes the page is to show: the added, the deleted, and the
\* modified ones whose fields classify_note_change calls content.
ToBeRendered(change) ==
    \/ change.change_type \in {"added", "deleted"}
    \/ classify_note_change(change.before[1].fields, change.after[1].fields).overall_type
           = ChangeType_CONTENT

\* What tells a change from the others of a list.
ChangeKey(change) == [guid |-> ChangeGuid(change), change_type |-> change.change_type]

\* C22: page generation renders a change iff it is not cosmetic-only:
\* every added and every deleted change, and a modified change exactly
\* when its fields classify as content, in the order of the input list.
C22_NonCosmeticChangesRendered ==
    dpc \in {"done", "raised"} =>
        [k \in 1..Len(rendered_changes) |->
            [guid |-> rendered_changes[k].guid,
             change_type |-> rendered_changes[k].change_type]]
          = LET todo == SelectSeq(note_changes, ToBeRendered)
            IN  [k \in 1..Len(todo) |-> ChangeKey(todo[k])]

====
